---- MODULE Spec2Model ----
(***************************************************************************)
(* A model of rf_azure_sync: the pull script (rf_azure_sync_get.py), the   *)
(* push script (rf_azure_sync_patch.py), the parsing, rendering and        *)
(* building functions they are made of, the step encoder of the            *)
(* feature-file push (ado_sync/parse_and_send.py), and the command line    *)
(* (rf_azure_sync.py).                                                     *)
(*                                                                         *)
(* Text is modelled as sequences of tokens.  A document is a sequence of   *)
(* line-sized tokens: "S" is the configured settings_section marker, "T"   *)
(* the configured test_cases_section marker (the Robot "*** Test Cases     *)
(* ***" line), "x" any other non-blank line that is neither a title nor a  *)
(* [tags] line, and "b1", "b2", ... the block create_robot_content renders *)
(* for the work item with that id.  A line is a sequence of words.         *)
(***************************************************************************)
EXTENDS Integers, Sequences, FiniteSets, TLC

(* ------------------------------- bounds -------------------------------- *)
MaxId == 3
MaxRuns == 2
MaxLines == 4
MaxTagWords == 3
MaxCases == 2

Ids == 1..MaxId

(* ------------------------------ helpers -------------------------------- *)
IsPrefix(p, s) == Len(p) <= Len(s) /\ SubSeq(s, 1, Len(p)) = p

\* Python's  sub in text  on token sequences
Contains(doc, sub) ==
  \E i \in 0..(Len(doc) - Len(sub)) : SubSeq(doc, i + 1, i + Len(sub)) = sub

CountSub(doc, sub) ==
  Cardinality({i \in 0..(Len(doc) - Len(sub)) : SubSeq(doc, i + 1, i + Len(sub)) = sub})

Count(doc, tok) == Cardinality({i \in 1..Len(doc) : doc[i] = tok})

SeqsUpTo(S, n) == UNION {[1..k -> S] : k \in 0..n}

(* ----------------------------- configuration --------------------------- *)
\* sync_config.json as create_sync_config writes it: the keys the scripts read
ConfigKeys ==
  {"path", "constants", "credentials", "tag_config",
   "settings_section", "test_cases_section", "System.AreaPath",
   "personal_access_token", "organization_name", "project_name",
   "user_story", "System.Tags", "Priority", "test_case",
   "AutomationStatus", "IterationPath", "title"}

\* keys read by the module-level statements of rf_azure_sync_get.py
ModuleLevelKeysGet ==
  {"path", "constants", "credentials", "tag_config",
   "settings_section", "test_cases_section",
   "personal_access_token", "organization_name", "project_name",
   "user_story", "System.Tags", "Priority", "test_case",
   "AutomationStatus", "IterationPath"}

\* the constants the pull writes as the structural header
settings_section == <<"S">>
test_cases_section == <<"T">>

VARIABLES
  cfgFile,              \* "ok" | "absent" | "invalid": sync_config.json on disk
  missing,              \* keys absent from an otherwise valid sync_config.json
  pc,                   \* position of the pull script
  runs,                 \* pull runs started so far
  writes,               \* pull runs that wrote the output document
  file,                 \* todo_organize.robot (<<>> when absent or empty)
  file0,                \* the output document before the first run
  otherIds,             \* ids tagged in the other .robot files of the folder
  azure_test_cases,
  robot_test_case_ids,
  new_test_case_ids,
  pending,              \* ids the fetch loop has not reached yet
  status,               \* per id, the outcome of its GET in this run
  gets,                 \* per id, the GET requests made in this run
  response_json_list,
  existing_content,     \* the document as the run read it
  robot_content,        \* the blocks rendered in this run
  netCalls,             \* requests sent in this run
  raw_test_cases_data,  \* parse_test_cases: its argument, a sequence of lines
  parsed,               \* parse_test_cases: its outcome
  case_tag,             \* extract_tags_info: the tag line of its argument
  tags_info,            \* extract_tags_info: its outcome
  ppc,                  \* position of the push script
  robot_files,          \* the .robot files find_robot_files returns, in order
  fidx,                 \* the file the push loop is at
  cases,                \* the records parsed from that file
  cidx,                 \* the record the push loop is at
  sent,                 \* the records a PATCH request was sent for, in order
  failures,             \* how many of those requests failed
  crashCause            \* what ended the push run, "none" while it runs

cfgVars == <<cfgFile, missing>>
pullVars == <<pc, runs, writes, file, file0, otherIds,
              azure_test_cases, robot_test_case_ids, new_test_case_ids, pending,
              status, gets, response_json_list, existing_content, robot_content>>
parseVars == <<raw_test_cases_data, parsed>>
tagVars == <<case_tag, tags_info>>
pushVars == <<ppc, robot_files, fidx, cases, cidx, sent, failures, crashCause>>


\* the functions of the two scripts taken one at a time
VARIABLES
  tag_config,           \* config["tag_config"]: the prefixes of the vocabulary
  rf_folder,            \* get_robot_test_case_ids: the folder it walks
  rf_test_case_ids,     \* get_robot_test_case_ids: its outcome
  steps_list,           \* the step lines of a record, each a sequence of tokens
  round_trip,           \* the step blob made of them and what the pull decodes of it
  push_case,            \* a record of parse_test_cases the push loop is given
  test_tags,            \* the Test Tags setting of the file of that record
  patch_doc,            \* what update_azure_test_case builds and sends for it
  work_item,            \* the fields of a work item the pull fetched
  tag_trip,             \* the tag line rendered for it and parse_tags of that line
  argv,                 \* sys.argv[1:] of rf_azure_sync.py
  tests_folder,         \* the "path" of sync_config.json, "" when empty or absent
  cli_pc,               \* position of main
  todo,                 \* the stages main has still to run
  stages,               \* the stages main started, in order
  exits                 \* for each stage that exited, whether its exit status was 0

idsVars == <<rf_folder, rf_test_case_ids>>
codecVars == <<steps_list, round_trip>>
buildVars == <<push_case, test_tags, patch_doc>>
renderVars == <<work_item, tag_trip>>
cliVars == <<argv, tests_folder, cli_pc, todo, stages, exits>>
fnVars == <<tag_config, idsVars, codecVars, buildVars, renderVars, cliVars>>

oldVars == <<cfgVars, pullVars, netCalls, parseVars, tagVars, pushVars>>
vars == <<oldVars, fnVars>>

\* what each of the functions leaves alone
idleInIds == <<oldVars, tag_config, rf_folder, codecVars, buildVars, renderVars, cliVars>>
idleInCodec == <<oldVars, tag_config, idsVars, steps_list, buildVars, renderVars, cliVars>>
idleInBuild ==
  <<oldVars, tag_config, idsVars, codecVars, push_case, test_tags, renderVars, cliVars>>
idleInRender == <<oldVars, tag_config, idsVars, codecVars, buildVars, work_item, cliVars>>
idleInCli ==
  <<missing, pullVars, netCalls, parseVars, tagVars, pushVars,
    tag_config, idsVars, codecVars, buildVars, renderVars, argv, tests_folder>>

\* the vocabulary create_sync_config suggests
DefaultTagConfig == [test_case |-> "TestCase", user_story |-> "UserStory", bug |-> "Bug"]

IdsNotCalled == [called |-> FALSE, raised |-> "none", ids |-> {}]

\* convert_step_to_xml of the feature-file push: not called yet
FeatureNotCalled == [called |-> FALSE, raised |-> "none", xml |-> <<>>, convertedSteps |-> <<>>]

CodecNotCalled ==
  [called |-> FALSE, steps_xml |-> <<>>, pairs |-> <<>>, lines |-> <<>>,
   feature |-> FeatureNotCalled]

IdsIdle ==
  /\ rf_folder = [root |-> <<>>, sub |-> <<>>]
  /\ rf_test_case_ids = IdsNotCalled

CodecIdle ==
  /\ steps_list = <<>>
  /\ round_trip = CodecNotCalled

\* a value of a patch op: Python's None, or a text
NoneVal == [none |-> TRUE, text |-> <<>>]
Val(text) == [none |-> FALSE, text |-> text]

NotBuilt ==
  [called |-> FALSE, raised |-> "none", sent |-> FALSE, test_case_id |-> "",
   update_iteration_path |-> <<>>, fields |-> <<>>]

BuildIdle ==
  /\ push_case = [keys |-> {}, Title |-> <<>>, Tags |-> <<>>, Steps |-> <<>>]
  /\ test_tags = NoneVal
  /\ patch_doc = NotBuilt

\* fields.get(name, ""): a field is the words of its text, none when absent
NoFields ==
  [id |-> <<>>, title |-> <<>>, automation_status |-> <<>>, priority |-> <<>>,
   sprint |-> <<>>, system_tags |-> FALSE, relations |-> <<>>]

NotRendered ==
  [called |-> FALSE, title_line |-> <<>>, tags_line |-> <<>>, tags |-> <<>>,
   case |-> [keys |-> {}, Title |-> <<>>, Tags |-> <<>>, Steps |-> <<>>],
   patch |-> NotBuilt]

RenderIdle ==
  /\ work_item = NoFields
  /\ tag_trip = NotRendered

CliIdle ==
  /\ argv = <<>>
  /\ tests_folder = ""
  /\ cli_pc = "idle"
  /\ todo = <<>>
  /\ stages = <<>>
  /\ exits = <<>>

FnIdle ==
  /\ tag_config = DefaultTagConfig
  /\ IdsIdle
  /\ CodecIdle
  /\ BuildIdle
  /\ RenderIdle
  /\ CliIdle

(* ------------------------- lines, words and dicts ---------------------- *)
\* A line is a sequence of tokens; " " stands for a run of white space.
WS == " "

RECURSIVE LStrip(_)
LStrip(l) == IF l # <<>> /\ Head(l) = WS THEN LStrip(Tail(l)) ELSE l

RECURSIVE RStrip(_)
RStrip(l) ==
  IF l # <<>> /\ l[Len(l)] = WS THEN RStrip(SubSeq(l, 1, Len(l) - 1)) ELSE l

\* str.strip()
Strip(l) == RStrip(LStrip(l))

\* str.startswith(prefix)
StartsWith(l, prefix) == IsPrefix(prefix, l)

\* l[n:]
Drop(l, n) == SubSeq(l, n + 1, Len(l))

\* str.split(): the words of a text
Words(l) == SelectSeq(l, LAMBDA t : t # WS)

\* Python's None
None == "None"

\* config_settings["tag_config"]: the vocabulary of the configuration
title_marker == <<"Title">>
prefix_automation_status == "AutomationStatus"
prefix_priority == "Priority"
prefix_system_tags == "Tags"
prefix_iteration_path == "IterationPath"
prefix_test_case == "TestCase"

\* the literal of lines 114 and 219
tags_marker == <<"[tags]">>

\* A dict of parse_test_cases: keys are the keys it holds; a field whose key
\* is absent is left empty.
EmptyDict == [keys |-> {}, Title |-> <<>>, Tags |-> <<>>, Steps |-> <<>>]

NewCase(title) ==
  [keys |-> {"Title", "Tags", "Steps"}, Title |-> title, Tags |-> <<>>, Steps |-> <<>>]

\* a dict is true when it holds a key
Truthy(d) == d.keys # {}

(* --------------------------- parse_test_cases -------------------------- *)
Flush(acc, cur) == IF Truthy(cur) THEN Append(acc, cur) ELSE acc

\* the loop of lines 102-117 (rf_azure_sync_get.py) and 207-222
\* (rf_azure_sync_patch.py), and the flush of the last record
RECURSIVE ParseLoop(_, _, _)
ParseLoop(lines, cur, acc) ==
  IF lines = <<>> THEN [called |-> TRUE, raised |-> FALSE, cases |-> Flush(acc, cur)]
  ELSE LET line == Strip(Head(lines)) IN
    IF line = <<>> THEN ParseLoop(Tail(lines), cur, acc)
    ELSE IF StartsWith(line, title_marker)
      THEN ParseLoop(Tail(lines),
                     NewCase(Strip(Drop(line, Len(title_marker)))),
                     Flush(acc, cur))
    ELSE IF StartsWith(line, tags_marker)
      THEN ParseLoop(Tail(lines),
                     [cur EXCEPT !.keys = @ \cup {"Tags"},
                                 !.Tags = Strip(Drop(line, Len(tags_marker)))],
                     acc)
    ELSE IF "Steps" \in cur.keys
      THEN ParseLoop(Tail(lines), [cur EXCEPT !.Steps = Append(@, line)], acc)
    \* current_test_case["Steps"] on a dict without that key: KeyError
    ELSE [called |-> TRUE, raised |-> TRUE, cases |-> <<>>]

parse_test_cases(lines) == ParseLoop(lines, EmptyDict, <<>>)

NotCalled == [called |-> FALSE, raised |-> FALSE, cases |-> <<>>]

(* --------------------------- extract_tags_info ------------------------- *)
\* re.search(prefix\s*([^\s]+), text): the word after the first occurrence
\* of the prefix that has a word after it, None when there is none
ValueAfter(words, prefix) ==
  LET hits == {i \in 1..(Len(words) - 1) : words[i] = prefix}
  IN IF hits = {} THEN None
     ELSE words[(CHOOSE i \in hits : \A j \in hits : i <= j) + 1]

\* re.search(prefix\s*([\w\s]+), text): the words after the prefix
WordsAfter(words, prefix) ==
  LET hits == {i \in 1..(Len(words) - 1) : words[i] = prefix}
  IN IF hits = {} THEN <<>>
     ELSE Drop(words, CHOOSE i \in hits : \A j \in hits : i <= j)

\* str.replace("_", " ")
ReplaceUnderscore(w) ==
  CASE w = "Not_Automated" -> "Not Automated"
    [] w = "Sprint_1" -> "Sprint 1"
    [] OTHER -> w

TagsNotCalled ==
  [called |-> FALSE, raised |-> FALSE, automation_status |-> None,
   priority |-> None, tags_value |-> <<>>]

\* lines 275-307
extract_tags_info(tags) ==
  LET words == Words(tags)
      automation_match == ValueAfter(words, prefix_automation_status)
      priority_tag_key == ValueAfter(words, prefix_priority)
      test_tags_key == Strip(tags)
      system_tags_key == WordsAfter(words, prefix_system_tags)
  IN IF automation_match = None
       \* None.group(1): AttributeError
       THEN [TagsNotCalled EXCEPT !.called = TRUE, !.raised = TRUE]
       ELSE [called |-> TRUE, raised |-> FALSE,
             automation_status |-> ReplaceUnderscore(automation_match),
             priority |-> priority_tag_key,
             tags_value |->
               IF test_tags_key # <<>> /\ system_tags_key = <<>> THEN test_tags_key
               ELSE IF system_tags_key # <<>> /\ test_tags_key = <<>> THEN system_tags_key
               ELSE IF system_tags_key # <<>> /\ test_tags_key # <<>>
                 THEN test_tags_key \o <<";", WS>> \o system_tags_key
               ELSE <<>>]

(* ------------------------------ pull: helpers -------------------------- *)
BlockTok(id) == CASE id = 1 -> "b1" [] id = 2 -> "b2" [] id = 3 -> "b3"
                  [] id = 4 -> "b4" [] OTHER -> "b5"

IsBlockTok(t) == \E id \in 1..5 : t = BlockTok(id)
IdOfBlock(t) == CHOOSE id \in 1..5 : t = BlockTok(id)

\* create_robot_content: one block per work item (title line, tag line, steps)
create_robot_content(id) == <<BlockTok(id)>>

\* only the first response rendered
RenderFirstOnly(ids) ==
  IF ids = <<>> THEN <<>> ELSE create_robot_content(Head(ids))

\* lines 371-374
RECURSIVE RenderAll(_)
RenderAll(ids) ==
  IF ids = <<>> THEN <<>> ELSE create_robot_content(Head(ids)) \o RenderAll(Tail(ids))

IsSectionTok(t) == t \in {"S", "T"}

\* extract_test_tags_and_test_cases: the text between the first test-cases
\* marker and the next "***" marker (or the end of the document)
TestCasesSection(doc) ==
  IF ~Contains(doc, <<"T">>) THEN <<>>
  ELSE LET start == CHOOSE i \in 1..Len(doc) :
                      doc[i] = "T" /\ \A j \in 1..(i - 1) : doc[j] # "T"
           stops == {j \in (start + 1)..Len(doc) : IsSectionTok(doc[j])}
           stop  == IF stops = {} THEN Len(doc) + 1
                    ELSE CHOOSE j \in stops : \A k \in stops : j <= k
       IN SubSeq(doc, start + 1, stop - 1)

\* parse_test_cases raises KeyError('Steps') on a step line met before any
\* title line: here, an "x" line opening the section
SectionRaises(sec) == sec # <<>> /\ sec[1] = "x"

\* the ids get_robot_test_case_ids finds in the output document
IdsInDoc(doc) ==
  {IdOfBlock(TestCasesSection(doc)[i]) :
     i \in {j \in 1..Len(TestCasesSection(doc)) : IsBlockTok(TestCasesSection(doc)[j])}}

\* the operands of the difference swapped
NewTestCaseIdsSwapped(catalog, local) == local \ catalog

\* line 353
NewTestCaseIds(catalog, local) == catalog \ local

\* the header condition forgotten
NeedsHeaderAlways(doc) == TRUE

\* lines 384-387
NeedsHeader(doc) ==
  doc = <<>> \/ (~Contains(doc, settings_section) /\ ~Contains(doc, test_cases_section))

\* the header appended whatever the document holds
AppendHeaderUnconditional(existing, content) ==
  existing \o settings_section \o test_cases_section \o content

\* the header put in front of the existing content
AppendPrepending(existing, content) ==
  (IF NeedsHeader(existing)
     THEN settings_section \o test_cases_section \o existing
     ELSE existing) \o content

\* lines 384-391
AppendToOutputDocument(existing, content) ==
  (IF NeedsHeader(existing)
     THEN existing \o settings_section \o test_cases_section
     ELSE existing) \o content

(* ------------------------------ pull: actions -------------------------- *)
InitDocs ==
  { <<>>, <<"x">>, <<"S">>, <<"T">>, <<"S", "T">>, <<"x", "T">>, <<"T", "x">>,
    <<"S", "x">>, <<"T", "S">> }

PushIdle ==
  /\ ppc = "idle"
  /\ robot_files = <<>>
  /\ fidx = 0
  /\ cases = <<>>
  /\ cidx = 0
  /\ sent = <<>>
  /\ failures = 0
  /\ crashCause = "none"

LocalIdSets == {{}, {1}, {1, 3}}

Configs == {{}} \cup {{k} : k \in ModuleLevelKeysGet \cup {"title"}}

Init ==
  /\ cfgFile \in {"ok", "absent", "invalid"}
  /\ missing \in Configs
  /\ (cfgFile # "ok" => missing = {})
  /\ pc = "start"
  /\ runs = 1
  /\ writes = 0
  /\ file \in InitDocs
  /\ file0 = file
  /\ otherIds \in LocalIdSets
  /\ azure_test_cases = {}
  /\ robot_test_case_ids = {}
  /\ new_test_case_ids = {}
  /\ pending = {}
  /\ status = [i \in Ids |-> "none"]
  /\ gets = [i \in Ids |-> 0]
  /\ response_json_list = <<>>
  /\ existing_content = <<>>
  /\ robot_content = <<>>
  /\ netCalls = 0
  /\ raw_test_cases_data = <<>>
  /\ parsed = NotCalled
  /\ case_tag = <<>>
  /\ tags_info = TagsNotCalled
  /\ PushIdle
  /\ FnIdle

\* rf_azure_sync_get.py lines 398-418, run when the script starts
LoadGetModule ==
  /\ pc = "start"
  /\ pc' = IF cfgFile = "ok" /\ missing \cap ModuleLevelKeysGet = {}
             THEN "loaded" ELSE "crashed"
  /\ UNCHANGED <<parseVars, tagVars, pushVars, fnVars, cfgVars, runs, writes, file, file0, otherIds, azure_test_cases,
                 robot_test_case_ids, new_test_case_ids, pending, status, gets,
                 response_json_list, existing_content, robot_content, netCalls>>

\* get_azure_test_cases: one POST; 200 gives the catalog, another status the
\* empty set, and a timeout raises
GetAzureTestCases ==
  /\ pc = "loaded"
  /\ netCalls' = netCalls + 1
  /\ \/ \E catalog \in SUBSET Ids :
          /\ azure_test_cases' = catalog
          /\ pc' = "catalog"
     \/ /\ azure_test_cases' = {}
        /\ pc' = "catalog"
     \/ /\ pc' = "crashed"
        /\ UNCHANGED azure_test_cases
  /\ UNCHANGED <<parseVars, tagVars, pushVars, fnVars, cfgVars, runs, writes, file, file0, otherIds,
                 robot_test_case_ids, new_test_case_ids, pending, status, gets,
                 response_json_list, existing_content, robot_content>>

\* get_robot_test_case_ids and the set difference of line 353
GetRobotTestCaseIds ==
  /\ pc = "catalog"
  /\ IF \/ SectionRaises(TestCasesSection(file))
        \/ ("title" \in missing /\ (otherIds # {} \/ TestCasesSection(file) # <<>>))
       THEN /\ pc' = "crashed"
            /\ UNCHANGED <<robot_test_case_ids, new_test_case_ids, pending>>
       ELSE /\ robot_test_case_ids' = otherIds \cup IdsInDoc(file)
            /\ new_test_case_ids' = NewTestCaseIds(azure_test_cases, robot_test_case_ids')
            /\ pending' = new_test_case_ids'
            /\ pc' = "fetching"
  /\ UNCHANGED <<parseVars, tagVars, pushVars, fnVars, cfgVars, runs, writes, file, file0, otherIds, azure_test_cases,
                 status, gets, response_json_list, existing_content,
                 robot_content, netCalls>>

\* one iteration of the loop of lines 355-370
FetchWorkItem ==
  /\ pc = "fetching"
  /\ \E id \in pending :
       /\ pending' = pending \ {id}
       /\ IF id \notin robot_test_case_ids
            THEN /\ gets' = [gets EXCEPT ![id] = @ + 1]
                 /\ netCalls' = netCalls + 1
                 /\ \/ /\ status' = [status EXCEPT ![id] = "ok"]
                       /\ response_json_list' = Append(response_json_list, id)
                       /\ pc' = "fetching"
                    \/ /\ status' = [status EXCEPT ![id] = "http_error"]
                       /\ pc' = "fetching"
                       /\ UNCHANGED response_json_list
                    \/ /\ status' = [status EXCEPT ![id] = "timeout"]
                       /\ pc' = "crashed"
                       /\ UNCHANGED response_json_list
            ELSE UNCHANGED <<gets, netCalls, status, response_json_list, pc>>
  /\ UNCHANGED <<parseVars, tagVars, pushVars, fnVars, cfgVars, runs, writes, file, file0, otherIds, azure_test_cases,
                 robot_test_case_ids, new_test_case_ids, existing_content,
                 robot_content>>

\* lines 371-394: render, read the document, add the header, write
RenderAndWrite ==
  /\ pc = "fetching"
  /\ pending = {}
  /\ IF "title" \in missing /\ response_json_list # <<>>
       THEN /\ pc' = "crashed"
            /\ UNCHANGED <<robot_content, existing_content, file, writes>>
       ELSE /\ robot_content' = RenderAll(response_json_list)
            /\ existing_content' = file
            /\ file' = AppendToOutputDocument(file, robot_content')
            /\ writes' = writes + 1
            /\ pc' = "done"
  /\ UNCHANGED <<parseVars, tagVars, pushVars, fnVars, cfgVars, runs, file0, otherIds, azure_test_cases,
                 robot_test_case_ids, new_test_case_ids, pending, status, gets,
                 response_json_list, netCalls>>

\* the script is started again
NextRun ==
  /\ pc \in {"done", "crashed"}
  /\ runs < MaxRuns
  /\ runs' = runs + 1
  /\ pc' = "start"
  /\ azure_test_cases' = {}
  /\ robot_test_case_ids' = {}
  /\ new_test_case_ids' = {}
  /\ pending' = {}
  /\ status' = [i \in Ids |-> "none"]
  /\ gets' = [i \in Ids |-> 0]
  /\ response_json_list' = <<>>
  /\ existing_content' = <<>>
  /\ robot_content' = <<>>
  /\ netCalls' = 0
  /\ UNCHANGED <<parseVars, tagVars, pushVars, fnVars, cfgVars, writes, file, file0, otherIds>>

Next ==
  \/ LoadGetModule
  \/ GetAzureTestCases
  \/ GetRobotTestCaseIds
  \/ FetchWorkItem
  \/ RenderAndWrite
  \/ NextRun

Spec == Init /\ [][Next]_vars

(* ============================ pull: claims ============================= *)
Header == settings_section \o test_cases_section
Attempted == {id \in Ids : gets[id] > 0}
NewBlocks(id) == Count(file, BlockTok(id)) - Count(existing_content, BlockTok(id))

\* C1: the ids a pull run fetches are exactly catalog - local: the work list
\* is the difference, every id of it is fetched or still awaits its turn, and
\* when the run has finished every id of it was fetched and no other.
C1_FetchedIsCatalogMinusLocal ==
  /\ Attempted \cup pending = new_test_case_ids
  /\ Attempted \cap pending = {}
  /\ (pc \in {"fetching", "done"} =>
        new_test_case_ids = azure_test_cases \ robot_test_case_ids)
  /\ (pc = "done" => Attempted = azure_test_cases \ robot_test_case_ids)

C1_Witness ==
  /\ pc = "done"
  /\ azure_test_cases = {1, 2, 3}
  /\ robot_test_case_ids = {1}
  /\ Attempted = {2, 3}

C3_PullIdempotent ==
  (pc = "done" /\ writes >= 2 /\ robot_content = <<>>) => file = existing_content

C3_Witness ==
  /\ pc = "done"
  /\ writes = 2
  /\ new_test_case_ids = {}
  /\ file0 = <<"x">>
  /\ \E id \in Ids : Count(file, BlockTok(id)) = 1

\* C4: the header is never duplicated: a run that finds the document
\* non-empty and holding the header leaves the number of headers as it was,
\* and a document that started without the header never holds more than one.
C4_HeaderNeverDuplicated ==
  /\ (pc = "done" /\ existing_content # <<>> /\ Contains(existing_content, Header)
        => CountSub(file, Header) = CountSub(existing_content, Header))
  /\ CountSub(file, Header) <=
       (IF CountSub(file0, Header) = 0 THEN 1 ELSE CountSub(file0, Header))

C4_Witness ==
  /\ pc = "done"
  /\ writes = 2
  /\ file0 = <<"x">>
  /\ CountSub(file, Header) = 1
  /\ Contains(existing_content, Header)

\* C5: the step that writes the document keeps what the document held, in
\* place and in order, followed by the header if one is added and then by
\* the blocks rendered in this run.
C5_ExistingContentPreserved ==
  [][pc' = "done" /\ pc # "done" =>
       /\ IsPrefix(file, file')
       /\ \E hdr \in {<<>>, Header} : file' = file \o hdr \o robot_content'
       /\ \A i \in 1..Len(robot_content') : IsBlockTok(robot_content'[i])]_vars

C5_Witness ==
  /\ pc = "done"
  /\ existing_content = <<"x", "T">>
  /\ Len(robot_content) = 2
  /\ file = existing_content \o robot_content

\* C6: when the GET of a new id fails (a timeout or a non-success status),
\* only that id is skipped: the run still fetches every other new id and
\* writes every record it fetched.
C6_FailedFetchSkipsOnlyThatId ==
  (/\ cfgFile = "ok" /\ missing = {}
   /\ pc \in {"done", "crashed"}
   /\ \E id \in Ids : status[id] \in {"http_error", "timeout"})
  => /\ pc = "done"
     /\ \A id \in new_test_case_ids : gets[id] = 1
     /\ \A id \in Ids : status[id] = "ok" => NewBlocks(id) = 1

\* C24: a run that finds the document empty or without both markers writes
\* the header first, then what the document held, then the blocks rendered
\* in this run; a run that finds a marker writes no header.
C24_HeaderPrependedOnce ==
  pc = "done" =>
    file = (IF NeedsHeader(existing_content)
              THEN Header \o existing_content
              ELSE existing_content) \o robot_content

\* What holds of the code: the header goes behind what the document held, so
\* the written document starts with the header only when the document was
\* empty.
HeaderAppendedOnce ==
  pc = "done" =>
    /\ file = (IF NeedsHeader(existing_content)
                 THEN existing_content \o Header
                 ELSE existing_content) \o robot_content
    /\ (existing_content = <<>> => IsPrefix(Header, file))

\* C25: a block a pull run appended is found by the runs that follow: its
\* id is in the local id set the next run computes and is not fetched again,
\* and no id ever has two blocks in the output document.
C25_PullConverges ==
  /\ (pc = "fetching" =>
        \A id \in Ids :
          Count(file, BlockTok(id)) > 0 => id \in robot_test_case_ids /\ gets[id] = 0)
  /\ \A id \in Ids : Count(file, BlockTok(id)) <= 1

\* the blocks appended to the document fall into its test-cases section: the
\* document gets the header, or holds the test-cases marker with no marker
\* behind it
AppendedBlocksAreInSection(doc) ==
  \/ NeedsHeader(doc)
  \/ /\ Contains(doc, test_cases_section)
     /\ \A i \in 1..Len(doc) :
          doc[i] = "T" => \A j \in (i + 1)..Len(doc) : ~IsSectionTok(doc[j])

\* What holds of the code: the same when the document the first run found
\* is such a document.
PullConvergesWhenBlocksAreInSection ==
  AppendedBlocksAreInSection(file0) => C25_PullConverges

(* ---------------------- parse_test_cases on its own -------------------- *)
ParseLines ==
  { <<>>, <<WS>>,
    <<"Title", WS, "A">>, <<WS, "Title", WS, "B">>,
    <<WS, "[tags]", WS, "TestCase", WS, "1">>, <<"[tags]", WS, "smoke">>,
    <<WS, "s1">>, <<"s2", WS>> }

PullIdle ==
  /\ pc = "idle"
  /\ runs = 0
  /\ writes = 0
  /\ file = <<>>
  /\ file0 = <<>>
  /\ otherIds = {}
  /\ azure_test_cases = {}
  /\ robot_test_case_ids = {}
  /\ new_test_case_ids = {}
  /\ pending = {}
  /\ status = [i \in Ids |-> "none"]
  /\ gets = [i \in Ids |-> 0]
  /\ response_json_list = <<>>
  /\ existing_content = <<>>
  /\ robot_content = <<>>
  /\ netCalls = 0

InitParse ==
  /\ cfgFile = "ok"
  /\ missing = {}
  /\ PullIdle
  /\ raw_test_cases_data \in SeqsUpTo(ParseLines, MaxLines)
  /\ parsed = NotCalled
  /\ case_tag = <<>>
  /\ tags_info = TagsNotCalled
  /\ PushIdle
  /\ FnIdle

CallParseTestCases ==
  /\ ~parsed.called
  /\ parsed' = parse_test_cases(raw_test_cases_data)
  /\ UNCHANGED <<cfgVars, pullVars, netCalls, raw_test_cases_data, tagVars, pushVars, fnVars>>

SpecParse == InitParse /\ [][CallParseTestCases]_vars

(* ---------------------- extract_tags_info on its own ------------------- *)
TagWords ==
  {"AutomationStatus", "Not_Automated", "Priority", "2", "Tags", "smoke",
   "TestCase", "1"}

InitTags ==
  /\ cfgFile = "ok"
  /\ missing = {}
  /\ PullIdle
  /\ raw_test_cases_data = <<>>
  /\ parsed = NotCalled
  /\ case_tag \in SeqsUpTo(TagWords, MaxTagWords)
  /\ tags_info = TagsNotCalled
  /\ PushIdle
  /\ FnIdle

CallExtractTagsInfo ==
  /\ ~tags_info.called
  /\ tags_info' = extract_tags_info(case_tag)
  /\ UNCHANGED <<cfgVars, pullVars, netCalls, parseVars, case_tag, pushVars, fnVars>>

SpecTags == InitTags /\ [][CallExtractTagsInfo]_vars

(* ===================== claims on the parsing helpers =================== *)
IsTitleLine(l) == StartsWith(Strip(l), title_marker)
IsTagsLine(l) == ~IsTitleLine(l) /\ StartsWith(Strip(l), tags_marker)
IsStepLine(l) == Strip(l) # <<>> /\ ~IsTitleLine(l) /\ ~IsTagsLine(l)

TitleLines(d) == {i \in 1..Len(d) : IsTitleLine(d[i])}
NthOf(S, j) == CHOOSE i \in S : Cardinality({x \in S : x < i}) = j - 1

\* the lines between the j-th title line and the next one (or the end)
BlockOf(d, j) ==
  LET T == TitleLines(d)
      last == IF j = Cardinality(T) THEN Len(d) ELSE NthOf(T, j + 1) - 1
  IN SubSeq(d, NthOf(T, j) + 1, last)

StrippedLines(b) == [i \in 1..Len(b) |-> Strip(b[i])]

RecordMatchesBlock(d, j, rec) ==
  LET b == BlockOf(d, j)
      tagLines == SelectSeq(b, IsTagsLine)
  IN /\ rec.keys = {"Title", "Tags", "Steps"}
     /\ rec.Title = Strip(Drop(Strip(d[NthOf(TitleLines(d), j)]), Len(title_marker)))
     /\ rec.Steps = StrippedLines(SelectSeq(b, IsStepLine))
     /\ (Len(tagLines) = 1 =>
           rec.Tags = Strip(Drop(Strip(tagLines[1]), Len(tags_marker))))

\* C10: parse_test_cases returns one record per title-marker line, in
\* document order, each with the steps of its block in source order and the
\* text of its [tags] line.
C10_OneRecordPerTitleLine ==
  (parsed.called /\ TitleLines(raw_test_cases_data) # {}) =>
    /\ ~parsed.raised
    /\ Len(parsed.cases) = Cardinality(TitleLines(raw_test_cases_data))
    /\ \A j \in 1..Len(parsed.cases) :
         RecordMatchesBlock(raw_test_cases_data, j, parsed.cases[j])

\* What holds of the code: the same, for a text whose first non-blank line
\* is a title line.
FirstLineIsTitle(d) ==
  \A i \in 1..Len(d) : (\A j \in 1..(i - 1) : Strip(d[j]) = <<>>) /\ Strip(d[i]) # <<>>
                         => IsTitleLine(d[i])

ParseOfWellFormedText ==
  (parsed.called /\ FirstLineIsTitle(raw_test_cases_data)) =>
    /\ ~parsed.raised
    /\ Len(parsed.cases) = Cardinality(TitleLines(raw_test_cases_data))
    /\ \A j \in 1..Len(parsed.cases) :
         RecordMatchesBlock(raw_test_cases_data, j, parsed.cases[j])

\* C11: parse_test_cases applied to a section without a title-marker line
\* returns the empty sequence and does not raise, whatever step lines or
\* [tags] lines the section holds.
C11_NoTitleGivesEmpty ==
  (parsed.called /\ TitleLines(raw_test_cases_data) = {}) =>
    /\ ~parsed.raised
    /\ parsed.cases = <<>>

CategoryAbsent(tags, prefix) == \A i \in 1..Len(Words(tags)) : Words(tags)[i] # prefix

\* C9: extract_tags_info never raises, and for each of automation status,
\* priority and system tags it returns no value when the tag line does not
\* carry the category.
C9_ExtractFailsSoft ==
  tags_info.called =>
    /\ ~tags_info.raised
    /\ (CategoryAbsent(case_tag, prefix_automation_status)
          => tags_info.automation_status = None)
    /\ (CategoryAbsent(case_tag, prefix_priority) => tags_info.priority = None)

(* ================================ push ================================= *)
\* parse_tags: re.findall((\S+)\s*(?::|\s)\s*(\S+)) pairs the words two by two
parse_tags(tags) ==
  LET words == Words(tags)
  IN [k \in 1..(Len(words) \div 2) |-> <<words[2 * k - 1], words[2 * k]>>]

\* tags.get(category, [])
TagValues(pairs, category) ==
  LET hits == SelectSeq(pairs, LAMBDA pr : pr[1] = category)
  IN [k \in 1..Len(hits) |-> hits[k][2]]

IsNumber(w) == w \in {"1", "2", "3"}

\* re.search(r"TestCase\s*(\d+)", tags), "" when there is no match (lines 479-480)
TestCaseIdOf(tags) ==
  LET words == Words(tags)
      hits == {i \in 1..(Len(words) - 1) : words[i] = "TestCase" /\ IsNumber(words[i + 1])}
  IN IF hits = {} THEN ""
     ELSE words[(CHOOSE i \in hits : \A j \in hits : i <= j) + 1]

\* What ends update_azure_test_case, or the loop body of rf_azure_sync_patch
\* before it, ahead of the PATCH request: "none" when nothing does.  The
\* checks are in the order of the code.
FailureBeforePatch(case, absent) ==
  IF "Tags" \notin case.keys THEN "KeyError"                    \* line 555
  ELSE IF "Steps" \notin case.keys THEN "KeyError"              \* line 559
  ELSE IF {"tag_config", "AutomationStatus"} \cap absent # {}
    THEN "config"                                               \* line 276
  ELSE IF extract_tags_info(case.Tags).raised
    THEN "AttributeError"                                       \* line 280
  ELSE IF {"Priority", "System.Tags"} \cap absent # {}
    THEN "config"                                               \* lines 285, 292
  ELSE IF {"credentials", "organization_name", "project_name",
           "personal_access_token"} \cap absent # {}
    THEN "config"                                               \* lines 473-475
  ELSE IF "Title" \notin case.keys THEN "KeyError"              \* line 477
  ELSE IF "IterationPath" \in absent THEN "config"              \* line 483
  ELSE IF /\ TagValues(parse_tags(case.Tags), prefix_iteration_path) # <<>>
          /\ {"constants", "System.AreaPath"} \cap absent # {}
    THEN "config"                                               \* line 329
  ELSE "none"

\* the try of lines 514-533 takes every outcome of the request without
\* raising: the mutant lets a timeout or a request exception through
PatchFailureLeftUncaught(outcome) ==
  outcome \notin {"timeout", "request_exception"}

\* lines 514-533: does update_azure_test_case return after this outcome
PatchOutcomeHandled(outcome) == TRUE

PatchOutcomes == {"ok", "http_error", "timeout", "request_exception"}

\* line 544: "todo_organize.robot" not in robot_file, on the path of the file
Excluded(f) == Contains(f.name, <<"todo_organize.robot">>)

TitleA == <<"Title", WS, "A">>
TitleB == <<WS, "Title", WS, "B">>
TagsFull ==
  <<WS, "[tags]", WS, "TestCase", WS, "1", WS, "AutomationStatus", WS,
    "Not_Automated", WS, "Priority", WS, "2">>
TagsNoStatus == <<WS, "[tags]", WS, "TestCase", WS, "2", WS, "Priority", WS, "2">>
TagsSprint ==
  <<WS, "[tags]", WS, "TestCase", WS, "3", WS, "AutomationStatus", WS,
    "Planned", WS, "IterationPath", WS, "Sprint_1">>
StepLine == <<WS, "s1">>

CaseBlocks ==
  { <<TitleA, TagsFull, StepLine>>,
    <<TitleB, TagsNoStatus>>,
    <<TitleA, TagsSprint, StepLine>> }

\* what a test-cases section may open with, ahead of its first title line
Openings == { <<>>, <<<<"[tags]", WS, "smoke">>>>, <<StepLine>> }

RECURSIVE Flatten(_)
Flatten(ss) == IF ss = <<>> THEN <<>> ELSE Head(ss) \o Flatten(Tail(ss))

PushSections ==
  {o \o Flatten(bs) : o \in Openings, bs \in SeqsUpTo(CaseBlocks, MaxCases)}

\* two files in the order of os.walk, each under its path in pieces; at most
\* one of them is the pull's output, or a file whose name ends like it
PushFileNames ==
  { << <<"a.robot">>, <<"b.robot">> >>,
    << <<"a.robot">>, <<"todo_organize.robot">> >>,
    << <<"todo_organize.robot">>, <<"b.robot">> >>,
    << <<"a.robot">>, <<"my_", "todo_organize.robot">> >> }

PushFileLists ==
  { <<[name |-> n[1], section |-> s1], [name |-> n[2], section |-> s2]>> :
      n \in PushFileNames, s1 \in PushSections, s2 \in PushSections }

\* one missing key for each place of the push script that reads the
\* configuration (lines 542, 211, 276, 285, 473, 483 and 329)
PatchConfigs ==
  {{}} \cup {{k} : k \in {"path", "title", "AutomationStatus", "Priority",
                          "credentials", "IterationPath", "System.AreaPath"}}

\* the keys of the configuration the push script reads
KeysPatchReads ==
  {"path", "tag_config", "title", "AutomationStatus", "Priority", "System.Tags",
   "credentials", "organization_name", "project_name", "personal_access_token",
   "IterationPath", "constants", "System.AreaPath"}

InitPatch ==
  /\ cfgFile \in {"ok", "absent", "invalid"}
  /\ missing \in PatchConfigs
  /\ (cfgFile # "ok" => missing = {})
  /\ PullIdle
  /\ raw_test_cases_data = <<>>
  /\ parsed = NotCalled
  /\ case_tag = <<>>
  /\ tags_info = TagsNotCalled
  /\ ppc = "start"
  /\ robot_files \in PushFileLists
  /\ fidx = 0
  /\ cases = <<>>
  /\ cidx = 0
  /\ sent = <<>>
  /\ failures = 0
  /\ crashCause = "none"
  /\ FnIdle

idleInPush == <<cfgVars, pullVars, parseVars, tagVars, robot_files, fnVars>>

\* lines 541-542
PatchLoadConfig ==
  /\ ppc = "start"
  /\ IF cfgFile # "ok" \/ "path" \in missing
       THEN ppc' = "crashed" /\ crashCause' = "config" /\ UNCHANGED fidx
       ELSE ppc' = "file" /\ fidx' = 1 /\ UNCHANGED crashCause
  /\ UNCHANGED <<idleInPush, netCalls, cases, cidx, sent, failures>>

\* lines 543-547: the next file is skipped, or read and parsed
NextRobotFile ==
  /\ ppc = "file"
  /\ fidx <= Len(robot_files)
  /\ LET f == robot_files[fidx]
         result == parse_test_cases(f.section)
         readsTitle == \E i \in 1..Len(f.section) : Strip(f.section[i]) # <<>>
     IN IF Excluded(f)
          THEN /\ fidx' = fidx + 1
               /\ UNCHANGED <<ppc, cases, cidx, crashCause>>
        ELSE IF readsTitle /\ {"tag_config", "title"} \cap missing # {}
          THEN /\ ppc' = "crashed" /\ crashCause' = "config"
               /\ UNCHANGED <<fidx, cases, cidx>>
        ELSE IF result.raised
          THEN /\ ppc' = "crashed" /\ crashCause' = "KeyError"
               /\ UNCHANGED <<fidx, cases, cidx>>
        ELSE /\ cases' = result.cases
             /\ cidx' = 1
             /\ ppc' = "case"
             /\ UNCHANGED <<fidx, crashCause>>
  /\ UNCHANGED <<idleInPush, netCalls, sent, failures>>

\* lines 548-560 with update_azure_test_case: one record built and sent
UpdateAzureTestCase ==
  /\ ppc = "case"
  /\ cidx <= Len(cases)
  /\ LET case == cases[cidx]
         failure == FailureBeforePatch(case, missing)
     IN IF failure # "none"
          THEN /\ ppc' = "crashed" /\ crashCause' = failure
               /\ UNCHANGED <<netCalls, sent, failures, cidx>>
          ELSE \E outcome \in PatchOutcomes :
                 /\ netCalls' = netCalls + 1
                 /\ sent' = Append(sent, [file |-> fidx, case |-> cidx,
                                          id |-> TestCaseIdOf(case.Tags)])
                 /\ failures' = IF outcome = "ok" THEN failures ELSE failures + 1
                 /\ IF PatchOutcomeHandled(outcome)
                      THEN cidx' = cidx + 1 /\ UNCHANGED <<ppc, crashCause>>
                      ELSE ppc' = "crashed" /\ crashCause' = "patch" /\ UNCHANGED cidx
  /\ UNCHANGED <<idleInPush, fidx, cases>>

\* line 548: the records of the file are exhausted
EndOfFile ==
  /\ ppc = "case"
  /\ cidx > Len(cases)
  /\ ppc' = "file"
  /\ fidx' = fidx + 1
  /\ UNCHANGED <<idleInPush, netCalls, cases, cidx, sent, failures, crashCause>>

\* line 543: the files are exhausted
PatchDone ==
  /\ ppc = "file"
  /\ fidx > Len(robot_files)
  /\ ppc' = "done"
  /\ UNCHANGED <<idleInPush, netCalls, fidx, cases, cidx, sent, failures, crashCause>>

NextPatch ==
  \/ PatchLoadConfig
  \/ NextRobotFile
  \/ UpdateAzureTestCase
  \/ EndOfFile
  \/ PatchDone

SpecPatch == InitPatch /\ [][NextPatch]_vars

(* ============================ push: claims ============================= *)
\* the records of the files the push does not exclude, in the order of the run
RECURSIVE RecordsFrom(_, _)
RecordsFrom(files, k) ==
  IF k > Len(files) THEN <<>>
  ELSE (IF Excluded(files[k]) THEN <<>>
        ELSE [c \in 1..Len(parse_test_cases(files[k].section).cases) |->
                [file |-> k, case |-> c]])
       \o RecordsFrom(files, k + 1)

Targets(log) == [k \in 1..Len(log) |-> [file |-> log[k].file, case |-> log[k].case]]

\* C7: a PATCH that fails (a non-200 status, a timeout or another request
\* exception) never ends the run; the requests sent are, in order, those of
\* the records of the files, whatever the outcome of the earlier ones, and a
\* run that has finished has sent one for every record.
C7_PatchFailureSkipsOnlyThatRecord ==
  /\ crashCause # "patch"
  /\ failures <= Len(sent)
  /\ IsPrefix(Targets(sent), RecordsFrom(robot_files, 1))
  /\ (ppc = "done" => Targets(sent) = RecordsFrom(robot_files, 1))

\* every request of the run failed, and the run still sent one for each of
\* the two records of the first file and for the record of the second
C7_Witness ==
  /\ ppc = "done"
  /\ Len(sent) = 3
  /\ failures = 3
  /\ sent[2].file = sent[1].file
  /\ sent[3].file # sent[1].file

\* the file the pull writes (rf_azure_sync_get.py line 376)
IsPullOutput(f) == f.name = <<"todo_organize.robot">>

\* the records of the files that are not the pull's output, in the order of
\* the run
RECURSIVE RecordsOfOtherFiles(_, _)
RecordsOfOtherFiles(files, k) ==
  IF k > Len(files) THEN <<>>
  ELSE (IF IsPullOutput(files[k]) THEN <<>>
        ELSE [c \in 1..Len(parse_test_cases(files[k].section).cases) |->
                [file |-> k, case |-> c]])
       \o RecordsOfOtherFiles(files, k + 1)

\* C29: no record of todo_organize.robot is ever patched, and a run that has
\* finished has submitted every record of every other file once.
C29_OnlyPullOutputExcluded ==
  /\ \A k \in 1..Len(sent) : ~IsPullOutput(robot_files[sent[k].file])
  /\ (ppc = "done" => Targets(sent) = RecordsOfOtherFiles(robot_files, 1))

\* What holds of the code: every file whose path holds the name of the pull's
\* output is left out, and a run that has finished has submitted every
\* record of the files that are left once.
EveryPathHoldingTheNameExcluded ==
  /\ \A k \in 1..Len(sent) :
       ~Contains(robot_files[sent[k].file].name, <<"todo_organize.robot">>)
  /\ (ppc = "done" =>
        /\ Targets(sent) = RecordsFrom(robot_files, 1)
        /\ \A i, j \in 1..Len(sent) : Targets(sent)[i] = Targets(sent)[j] => i = j)

(* ======================== configuration: claims ======================== *)
\* the keys of the configuration the pull script reads
KeysGetReads == ModuleLevelKeysGet \cup {"title"}

\* C8: a missing or malformed configuration (no file, invalid JSON, or a
\* key the run reads missing) ends the pull run and the push run before any
\* request is sent.
C8_BadConfigSendsNothing ==
  /\ (pc # "idle" /\ (cfgFile # "ok" \/ missing \cap KeysGetReads # {}) => netCalls = 0)
  /\ (ppc # "idle" /\ (cfgFile # "ok" \/ missing \cap KeysPatchReads # {}) => netCalls = 0)

(* ======================= get_robot_test_case_ids ======================= *)
MaxRootFiles == 2
MaxSubFiles == 1

\* int(...) of lines 320 and 329
ToInt(w) == CASE w = "1" -> 1 [] w = "2" -> 2 [] w = "3" -> 3 [] OTHER -> 0

\* re.search(rf"{pref_test_case}\s*(\d+)", case["Tags"]) of lines 320-322:
\* the number after the first occurrence of the prefix that has one, as a
\* set of at most one integer
RobotTestCaseIdOf(tags, pref_test_case) ==
  LET words == Words(tags)
      hits == {i \in 1..(Len(words) - 1) :
                 words[i] = pref_test_case /\ IsNumber(words[i + 1])}
  IN IF hits = {} THEN {}
     ELSE {ToInt(words[(CHOOSE i \in hits : \A j \in hits : i <= j) + 1])}

\* str.endswith(".robot"), str.endswith(".feature")
Ext(name) ==
  CASE name \in {"a.robot", "d.robot"} -> ".robot"
    [] name = "b.feature" -> ".feature"
    [] OTHER -> ".txt"

\* read_robot_file and read_feature_file (lines 172-200) as lines 316 and
\* 325 call them: the path is f"{rf_folder_path}/{file_path}", the root of
\* the walk joined with the bare file name, whatever directory the walk is at
read_robot_file(folder, name) ==
  LET hits == {i \in 1..Len(folder.root) : folder.root[i].name = name}
  IN IF hits = {} THEN [found |-> FALSE, section |-> <<>>]
     ELSE [found |-> TRUE, section |-> folder.root[CHOOSE i \in hits : TRUE].section]

\* lines 313-334: os.walk yields the root and then the subfolder; files is
\* the list of [dir, name] still to visit
RECURSIVE IdsLoop(_, _, _, _)
IdsLoop(folder, files, pref_test_case, ids) ==
  IF files = <<>> THEN [called |-> TRUE, raised |-> "none", ids |-> ids]
  ELSE LET f == Head(files) IN
    IF Ext(f.name) \notin {".robot", ".feature"}
      THEN IdsLoop(folder, Tail(files), pref_test_case, ids)
    ELSE LET content == read_robot_file(folder, f.name) IN
      IF ~content.found
        THEN [called |-> TRUE, raised |-> "FileNotFoundError", ids |-> {}]
      ELSE LET result == parse_test_cases(content.section) IN
        IF result.raised
          THEN [called |-> TRUE, raised |-> "KeyError", ids |-> {}]
          ELSE IdsLoop(folder, Tail(files), pref_test_case,
                       ids \cup UNION {RobotTestCaseIdOf(result.cases[k].Tags, pref_test_case) :
                                         k \in 1..Len(result.cases)})

\* the files in the order of the walk
WalkOf(folder) ==
  [i \in 1..Len(folder.root) |-> [dir |-> "root", name |-> folder.root[i].name]]
  \o [i \in 1..Len(folder.sub) |-> [dir |-> "sub", name |-> folder.sub[i].name]]

get_robot_test_case_ids(folder, pref_test_case) ==
  IdsLoop(folder, WalkOf(folder), pref_test_case, {})

TagsOf(words) == <<WS, "[tags]">> \o Flatten([i \in 1..Len(words) |-> <<WS, words[i]>>])

\* the test-cases sections of the files of the folder
IdSections ==
  { <<TitleA, TagsOf(<<"TestCase", "1">>), StepLine>>,
    <<TitleA, TagsOf(<<"TC", "2">>), StepLine, TitleB>>,
    <<TitleB, TagsOf(<<"smoke">>)>>,
    <<TitleA, TagsOf(<<"TestCase", "3", "TC", "1">>)>>,
    <<StepLine, TitleA, TagsOf(<<"TestCase", "2">>)>> }

IdFileNames == {"a.robot", "b.feature", "c.txt", "d.robot"}

DistinctNames(files) ==
  \A i, j \in 1..Len(files) : files[i].name = files[j].name => i = j

DirsUpTo(n) ==
  {d \in SeqsUpTo([name : IdFileNames, section : IdSections], n) : DistinctNames(d)}

Folders == [root : DirsUpTo(MaxRootFiles), sub : DirsUpTo(MaxSubFiles)]

Vocabularies ==
  [test_case : {"TestCase", "TC"}, user_story : {"UserStory", "US"}, bug : {"Bug"}]

InitIds ==
  /\ cfgFile = "ok"
  /\ missing = {}
  /\ PullIdle
  /\ raw_test_cases_data = <<>>
  /\ parsed = NotCalled
  /\ case_tag = <<>>
  /\ tags_info = TagsNotCalled
  /\ PushIdle
  /\ tag_config \in Vocabularies
  /\ rf_folder \in Folders
  /\ rf_test_case_ids = IdsNotCalled
  /\ CodecIdle
  /\ BuildIdle
  /\ RenderIdle
  /\ CliIdle

CallGetRobotTestCaseIds ==
  /\ ~rf_test_case_ids.called
  /\ rf_test_case_ids' = get_robot_test_case_ids(rf_folder, tag_config.test_case)
  /\ UNCHANGED idleInIds

SpecIds == InitIds /\ [][CallGetRobotTestCaseIds]_vars

\* the tag line of the j-th record of a section: the text of the last
\* [tags] line of its block, empty when the block has none
TagLineOfBlock(d, j) ==
  LET tagLines == SelectSeq(BlockOf(d, j), IsTagsLine)
  IN IF tagLines = <<>> THEN <<>>
     ELSE Strip(Drop(Strip(tagLines[Len(tagLines)]), Len(tags_marker)))

IdsOfSection(d, pref) ==
  UNION {RobotTestCaseIdOf(TagLineOfBlock(d, j), pref) :
           j \in 1..Cardinality(TitleLines(d))}

SyncedFiles(folder) ==
  {f \in {folder.root[i] : i \in 1..Len(folder.root)}
         \cup {folder.sub[i] : i \in 1..Len(folder.sub)} :
     Ext(f.name) \in {".robot", ".feature"}}

IdsOfFolder(folder, pref) == UNION {IdsOfSection(f.section, pref) : f \in SyncedFiles(folder)}

\* C12: get_robot_test_case_ids returns, without raising, exactly the
\* integers that follow the configured test-case-id prefix in the tag lines
\* of the records of every .robot and .feature file of the folder, the files
\* of subfolders included; a record without such a tag contributes nothing.
C12_LocalIdsOfEveryFile ==
  rf_test_case_ids.called =>
    /\ rf_test_case_ids.raised = "none"
    /\ rf_test_case_ids.ids = IdsOfFolder(rf_folder, tag_config.test_case)

\* What holds of the code: the same for a folder without subfolder files
\* whose sections open with a title line.
IdsOfFlatWellFormedFolder ==
  (/\ rf_test_case_ids.called
   /\ rf_folder.sub = <<>>
   /\ \A f \in SyncedFiles(rf_folder) : FirstLineIsTitle(f.section))
  => /\ rf_test_case_ids.raised = "none"
     /\ rf_test_case_ids.ids = IdsOfFolder(rf_folder, tag_config.test_case)

(* ========================= the rich-text codec ========================= *)
MaxSteps == 2
MaxStepLen == 3

\* the literals of the step blob, one token each
PsOpen == "<parameterizedString isformatted=true>"
PsClose == "</parameterizedString>"
StepEnd == "<description/></step>"
StepsEnd == "</steps>"

\* f'<step id="{step_id}" type="ActionStep">'
StepTok(id) ==
  CASE id = 1 -> "<step id=1 type=ActionStep>"
    [] id = 2 -> "<step id=2 type=ActionStep>"
    [] id = 3 -> "<step id=3 type=ActionStep>"
    [] id = 4 -> "<step id=4 type=ActionStep>"
    [] OTHER -> "<step id=5 type=ActionStep>"

IsStepTok(t) == \E id \in 1..5 : t = StepTok(id)

\* f'<steps id="0" last="{len(test_steps)}">'
StepsTok(last) ==
  CASE last = 0 -> "<steps id=0 last=0>"
    [] last = 1 -> "<steps id=0 last=1>"
    [] last = 2 -> "<steps id=0 last=2>"
    [] last = 3 -> "<steps id=0 last=3>"
    [] last = 4 -> "<steps id=0 last=4>"
    [] OTHER -> "<steps id=0 last=5>"

\* TestStep.to_dict (lines 56-80): the action is spliced in as it is
to_dict(action, step_id) ==
  [id |-> step_id,
   type |-> "ActionStep",
   action |-> <<PsOpen, "&lt;", "P", "&gt;">> \o action
                \o <<"&lt;", "BR/", "&gt;", "&lt;", "/P", "&gt;", PsClose>>,
   expectedResult |-> <<PsOpen, "&lt;", "DIV", "&gt;", "&lt;", "P", "&gt;",
                         "&lt;", "BR/", "&gt;", "&lt;", "/P", "&gt;",
                         "&lt;", "/DIV", "&gt;", PsClose>>]

\* build_steps_xml (lines 384-393) on the steps transform_steps made of the lines
build_steps_xml(steps) ==
  LET test_steps == [i \in 1..Len(steps) |-> to_dict(steps[i], i)]
  IN <<StepsTok(Len(test_steps))>>
     \o Flatten([i \in 1..Len(test_steps) |->
                   <<StepTok(i)>> \o test_steps[i].action
                     \o test_steps[i].expectedResult \o <<StepEnd>>])
     \o <<StepsEnd>>

\* the first match of the pattern of lines 235-238 at the head of s: the two
\* groups are lazy, each ends at the first place the rest can match
MatchStepAt(s) ==
  LET ends(j) == {k \in (j + 2)..(Len(s) - 1) : s[k] = PsClose /\ s[k + 1] = StepEnd}
      js == {j \in 3..(Len(s) - 1) : s[j] = PsClose /\ s[j + 1] = PsOpen /\ ends(j) # {}}
  IN IF Len(s) < 2 \/ ~IsStepTok(s[1]) \/ s[2] # PsOpen \/ js = {}
       THEN [found |-> FALSE, action |-> <<>>, expected |-> <<>>, len |-> 0]
       ELSE LET j == CHOOSE x \in js : \A y \in js : x <= y
                k == CHOOSE x \in ends(j) : \A y \in ends(j) : x <= y
            IN [found |-> TRUE, action |-> SubSeq(s, 3, j - 1),
                expected |-> SubSeq(s, j + 2, k - 1), len |-> k + 1]

\* get_steps_and_expected_results (lines 233-243): re.findall
RECURSIVE get_steps_and_expected_results(_)
get_steps_and_expected_results(steps_raw) ==
  IF steps_raw = <<>> THEN <<>>
  ELSE LET m == MatchStepAt(steps_raw)
       IN IF m.found
            THEN <<<<m.action, m.expected>>>>
                 \o get_steps_and_expected_results(Drop(steps_raw, m.len))
            ELSE get_steps_and_expected_results(Tail(steps_raw))

\* re.sub("<[^<]+?>", "", text): every "<", some text without "<", ">" goes
RECURSIVE TagStrip(_)
TagStrip(t) ==
  IF t = <<>> THEN <<>>
  ELSE LET closes == {j \in 3..Len(t) : t[j] = ">" /\ \A i \in 2..(j - 1) : t[i] # "<"}
       IN IF t[1] = "<" /\ closes # {}
            THEN TagStrip(Drop(t, CHOOSE j \in closes : \A k \in closes : j <= k))
            ELSE <<Head(t)>> \o TagStrip(Tail(t))

\* html.unescape
Unescape(t) ==
  [i \in 1..Len(t) |-> CASE t[i] = "&lt;" -> "<"
                         [] t[i] = "&gt;" -> ">"
                         [] t[i] = "&amp;" -> "&"
                         [] OTHER -> t[i]]

\* str.replace(sub, "")
RECURSIVE RemoveAll(_, _)
RemoveAll(t, sub) ==
  IF Len(t) < Len(sub) THEN t
  ELSE IF IsPrefix(sub, t) THEN RemoveAll(Drop(t, Len(sub)), sub)
  ELSE <<Head(t)>> \o RemoveAll(Tail(t), sub)

Markup(name) == <<"<", name, ">">>

\* lines 284-287
CleanStep(step) ==
  LET unescaped == Unescape(TagStrip(Strip(step)))
      noP == RemoveAll(RemoveAll(unescaped, Markup("P")), Markup("/P"))
      noDiv == RemoveAll(RemoveAll(noP, Markup("DIV")), Markup("/DIV"))
  IN RemoveAll(RemoveAll(noDiv, Markup("BR")), Markup("BR/"))

\* lines 280-290: the step lines create_robot_content renders of a blob
StepLinesOf(steps_raw) ==
  LET pairs == get_steps_and_expected_results(steps_raw)
      cleaned == [i \in 1..Len(pairs) |-> CleanStep(pairs[i][1])]
  IN SelectSeq(cleaned, LAMBDA step : step # <<>>)

\* the escaped markup both encoders write: "&lt;" name "&gt;"
Escaped(name) == <<"&lt;", name, "&gt;">>

\* the empty expected result both encoders write
EmptyExpected ==
  <<PsOpen>> \o Escaped("DIV") \o Escaped("P") \o Escaped("BR/")
    \o Escaped("/P") \o Escaped("/DIV") \o <<PsClose>>

\* re.sub(r'<(.*?)>', r'@\1', text) of convert_step_to_xml (line 189)
RECURSIVE AtSub(_)
AtSub(t) ==
  IF t = <<>> THEN <<>>
  ELSE LET closes == {j \in 2..Len(t) : t[j] = ">"}
       IN IF t[1] = "<" /\ closes # {}
            THEN LET j == CHOOSE x \in closes : \A y \in closes : x <= y
                 IN <<"@">> \o SubSeq(t, 2, j - 1) \o AtSub(Drop(t, j))
            ELSE <<Head(t)>> \o AtSub(Tail(t))

\* one element of xml_steps (lines 190-195), the blob laid out on lines
XmlStep(idx, step) ==
  <<StepTok(idx), "\n", WS, PsOpen>>
    \o Escaped("DIV") \o Escaped("P") \o Escaped("B") \o <<step.keyword>>
    \o Escaped("/B") \o <<WS>> \o AtSub(step.text)
    \o Escaped("/P") \o Escaped("/DIV") \o <<PsClose, "\n", WS>>
    \o EmptyExpected \o <<"\n", WS, "<description/>", "\n", "</step>">>

\* '\n'.join(xml_steps)
RECURSIVE JoinLines(_)
JoinLines(parts) ==
  IF parts = <<>> THEN <<>>
  ELSE IF Len(parts) = 1 THEN parts[1]
  ELSE parts[1] \o <<"\n">> \o JoinLines(Tail(parts))

\* convert_step_to_xml (parse_and_send.py lines 185-201): idx is the variable
\* of the loop, it has no value when the loop made no turn
convert_step_to_xml(steps) ==
  IF steps = <<>>
    THEN [raised |-> "UnboundLocalError", xml |-> <<>>]
    ELSE [raised |-> "none",
          xml |-> <<StepsTok(Len(steps) + 1), "\n">>
                    \o JoinLines([i \in 1..Len(steps) |-> XmlStep(i + 1, steps[i])])
                    \o <<"\n", StepsEnd>>]

\* convert_and_send (parse_and_send.py lines 13-19): the value of the steps op,
\* the encoder is called for a scenario that has steps only
ConvertedSteps(steps) ==
  IF Len(steps) > 0 THEN convert_step_to_xml(steps).xml ELSE <<>>

\* the steps the gherkin parser hands over: a keyword and a text each
FeatureStepsOf(lines) == [i \in 1..Len(lines) |-> [keyword |-> "Given", text |-> lines[i]]]

\* what a step line is made of: words, angle brackets, entities
StepTokens == {"a", "b", "<", ">", "&amp;"}

StepLines == SeqsUpTo(StepTokens, MaxStepLen) \ {<<>>}

InitCodec ==
  /\ cfgFile = "ok"
  /\ missing = {}
  /\ PullIdle
  /\ raw_test_cases_data = <<>>
  /\ parsed = NotCalled
  /\ case_tag = <<>>
  /\ tags_info = TagsNotCalled
  /\ PushIdle
  /\ tag_config = DefaultTagConfig
  /\ IdsIdle
  /\ steps_list \in SeqsUpTo(StepLines, MaxSteps)
  /\ round_trip = CodecNotCalled
  /\ BuildIdle
  /\ RenderIdle
  /\ CliIdle

\* the push encodes the step lines, the pull decodes the blob
EncodeThenDecode ==
  /\ ~round_trip.called
  /\ round_trip' =
       [called |-> TRUE,
        steps_xml |-> build_steps_xml(steps_list),
        pairs |-> get_steps_and_expected_results(build_steps_xml(steps_list)),
        lines |-> StepLinesOf(build_steps_xml(steps_list)),
        feature |-> round_trip.feature]
  /\ UNCHANGED idleInCodec

\* convert_step_to_xml on the same steps, each under the keyword Given, and
\* what convert_and_send makes of them
CallConvertStepToXml ==
  /\ ~round_trip.feature.called
  /\ round_trip' =
       [round_trip EXCEPT !.feature =
          [called |-> TRUE,
           raised |-> convert_step_to_xml(FeatureStepsOf(steps_list)).raised,
           xml |-> convert_step_to_xml(FeatureStepsOf(steps_list)).xml,
           convertedSteps |-> ConvertedSteps(FeatureStepsOf(steps_list))]]
  /\ UNCHANGED idleInCodec

NextCodec == EncodeThenDecode \/ CallConvertStepToXml

SpecCodec == InitCodec /\ [][NextCodec]_vars

\* C13: decoding the blob that build_steps_xml made of a list of step lines
\* yields the same action lines in the same order, one pair per line, each
\* with an expected result that holds no text.
C13_CodecRoundTrip ==
  round_trip.called =>
    /\ round_trip.lines = steps_list
    /\ Len(round_trip.pairs) = Len(steps_list)
    /\ \A i \in 1..Len(round_trip.pairs) : CleanStep(round_trip.pairs[i][2]) = <<>>

\* What holds of the code: the same for lines without angle brackets and
\* without entities.
MarkupFree(step) == \A i \in 1..Len(step) : step[i] \in {"a", "b"}

CodecRoundTripOfMarkupFreeLines ==
  (round_trip.called /\ \A i \in 1..Len(steps_list) : MarkupFree(steps_list[i])) =>
    /\ round_trip.lines = steps_list
    /\ Len(round_trip.pairs) = Len(steps_list)
    /\ \A i \in 1..Len(round_trip.pairs) : CleanStep(round_trip.pairs[i][2]) = <<>>

(* ------------------ step identifiers of the two encoders --------------- *)
\* the identifiers of the step elements of a blob, in blob order
RECURSIVE StepIdsOf(_)
StepIdsOf(xml) ==
  IF xml = <<>> THEN <<>>
  ELSE (IF IsStepTok(Head(xml))
          THEN <<CHOOSE id \in 1..5 : Head(xml) = StepTok(id)>>
          ELSE <<>>) \o StepIdsOf(Tail(xml))

\* the k-th of n steps carries k + 1, the envelope says last = n + 1
StampedFromTwo(xml, n) ==
  /\ xml # <<>>
  /\ Head(xml) = StepsTok(n + 1)
  /\ StepIdsOf(xml) = [k \in 1..n |-> k + 1]

\* C22: both step encoders stamp the k-th step of a non-empty list of n
\* steps with the identifier k + 1 and set last to n + 1.
C22_StepIdsStartAtTwo ==
  (/\ round_trip.called
   /\ round_trip.feature.called
   /\ steps_list # <<>>)
  => /\ StampedFromTwo(round_trip.steps_xml, Len(steps_list))
     /\ round_trip.feature.raised = "none"
     /\ StampedFromTwo(round_trip.feature.xml, Len(steps_list))

\* What holds of the code: convert_step_to_xml stamps from two, build_steps_xml
\* stamps the k-th step with k and sets last to n.
StepIdsOfEachEncoder ==
  (/\ round_trip.called
   /\ round_trip.feature.called
   /\ steps_list # <<>>)
  => /\ StampedFromTwo(round_trip.feature.xml, Len(steps_list))
     /\ Head(round_trip.steps_xml) = StepsTok(Len(steps_list))
     /\ StepIdsOf(round_trip.steps_xml) = [k \in 1..Len(steps_list) |-> k]

\* an envelope with no step element in it
IsEmptyEnvelope(xml) ==
  /\ Len(xml) >= 2
  /\ \E last \in 0..5 : Head(xml) = StepsTok(last)
  /\ xml[Len(xml)] = StepsEnd
  /\ \A i \in 2..(Len(xml) - 1) : xml[i] \in {WS, "\n"}

\* C23: for an empty step list both encoders return, without raising, a steps
\* envelope that holds no step element.
C23_EmptyListGivesEmptyEnvelope ==
  (/\ round_trip.called
   /\ round_trip.feature.called
   /\ steps_list = <<>>)
  => /\ IsEmptyEnvelope(round_trip.steps_xml)
     /\ round_trip.feature.raised = "none"
     /\ IsEmptyEnvelope(round_trip.feature.xml)

\* What holds of the code: build_steps_xml returns the empty envelope,
\* convert_step_to_xml raises, and convert_and_send, which does not call it
\* for a scenario without steps, sends the empty text.
EmptyListInEachEncoder ==
  (/\ round_trip.called
   /\ round_trip.feature.called
   /\ steps_list = <<>>)
  => /\ round_trip.steps_xml = <<StepsTok(0), StepsEnd>>
     /\ round_trip.feature.raised = "UnboundLocalError"
     /\ round_trip.feature.convertedSteps = <<>>

(* ------------------- decoding a blob the remote returns ---------------- *)
MaxBodyLen == 2

\* the text of an action in the remote: words, angle brackets, an entity
BodyTokens == {"a", "<", ">", "&amp;"}

Bodies == SeqsUpTo(BodyTokens, MaxBodyLen)

\* the rich text the remote holds of an action: the body in the markup of
\* the web editor, or in the markup the push wrote
RemoteActions ==
  {Escaped("DIV") \o Escaped("P") \o b \o Escaped("/P") \o Escaped("/DIV") : b \in Bodies}
    \cup {Escaped("P") \o b \o Escaped("BR/") \o Escaped("/P") : b \in Bodies}

RemoteExpected ==
  {Escaped("DIV") \o Escaped("P") \o Escaped("BR/") \o Escaped("/P") \o Escaped("/DIV"),
   Escaped("P") \o <<"e">> \o Escaped("/P")}

RemoteSteps == [action : RemoteActions, expected : RemoteExpected]

\* a blob on one line, the k-th step under the identifier k + 1
CompactBlob(steps) ==
  <<StepsTok(Len(steps) + 1)>>
    \o Flatten([i \in 1..Len(steps) |->
                  <<StepTok(i + 1), PsOpen>> \o steps[i].action
                    \o <<PsClose, PsOpen>> \o steps[i].expected
                    \o <<PsClose, StepEnd>>])
    \o <<StepsEnd>>

FeatureTexts == SeqsUpTo({"a", "<", ">"}, MaxBodyLen) \ {<<>>}

FeatureSteps == [keyword : {"Given"}, text : FeatureTexts]

InitDecode ==
  /\ cfgFile = "ok"
  /\ missing = {}
  /\ PullIdle
  /\ raw_test_cases_data = <<>>
  /\ parsed = NotCalled
  /\ case_tag = <<>>
  /\ tags_info = TagsNotCalled
  /\ PushIdle
  /\ tag_config = DefaultTagConfig
  /\ IdsIdle
  /\ steps_list = <<>>
  \* the blob a work item holds: one of the web editor or of the push, or one
  \* the feature-file push wrote
  /\ \/ \E steps \in SeqsUpTo(RemoteSteps, MaxSteps) :
          round_trip = [CodecNotCalled EXCEPT !.steps_xml = CompactBlob(steps)]
     \/ \E fs \in SeqsUpTo(FeatureSteps, MaxSteps) \ {<<>>} :
          round_trip = [CodecNotCalled EXCEPT !.steps_xml = convert_step_to_xml(fs).xml]
  /\ BuildIdle
  /\ RenderIdle
  /\ CliIdle

\* lines 280-290 of create_robot_content on fields["Microsoft.VSTS.TCM.Steps"]
DecodeStepsBlob ==
  /\ ~round_trip.called
  /\ round_trip' =
       [round_trip EXCEPT
          !.called = TRUE,
          !.pairs = get_steps_and_expected_results(round_trip.steps_xml),
          !.lines = StepLinesOf(round_trip.steps_xml)]
  /\ UNCHANGED idleInCodec

SpecDecode == InitDecode /\ [][DecodeStepsBlob]_vars

\* the first place at or after from where s holds tok, 0 when there is none
FirstAt(s, tok, from) ==
  LET at == {i \in from..Len(s) : s[i] = tok}
  IN IF at = {} THEN 0 ELSE CHOOSE i \in at : \A j \in at : i <= j

\* the step elements of a blob as the markup nests them: the text of the
\* first and of the second parameterizedString of each step element
RECURSIVE StepElements(_)
StepElements(xml) ==
  IF xml = <<>> THEN <<>>
  ELSE IF ~IsStepTok(Head(xml)) THEN StepElements(Tail(xml))
  ELSE LET o1 == FirstAt(xml, PsOpen, 2)
           c1 == FirstAt(xml, PsClose, o1 + 1)
           o2 == FirstAt(xml, PsOpen, c1 + 1)
           c2 == FirstAt(xml, PsClose, o2 + 1)
       IN <<[action |-> SubSeq(xml, o1 + 1, c1 - 1),
             expected |-> SubSeq(xml, o2 + 1, c2 - 1)]>>
            \o StepElements(Drop(xml, c2))

\* an action with its entities unescaped and its P, DIV and BR markup taken out
PlainAction(action) ==
  LET unescaped == Unescape(action)
      noP == RemoveAll(RemoveAll(unescaped, Markup("P")), Markup("/P"))
      noDiv == RemoveAll(RemoveAll(noP, Markup("DIV")), Markup("/DIV"))
  IN RemoveAll(RemoveAll(noDiv, Markup("BR")), Markup("BR/"))

PlainActionsOf(xml) ==
  LET elements == StepElements(xml)
      plain == [i \in 1..Len(elements) |-> PlainAction(elements[i].action)]
  IN SelectSeq(plain, LAMBDA step : step # <<>>)

\* C21: the step lines rendered of a blob are, in blob order, the actions of
\* its steps with P, DIV and BR markup taken out and entities unescaped, one
\* line for each step whose action is then not empty, and no line holds text
\* of an expected result.
C21_OneLinePerNonEmptyAction ==
  round_trip.called =>
    /\ round_trip.lines = PlainActionsOf(round_trip.steps_xml)
    /\ \A i \in 1..Len(round_trip.lines) : ~Contains(round_trip.lines[i], <<"e">>)

\* What holds of the code: the same for a blob on one line whose actions hold
\* no angle bracket of their own.
OnOneLine(xml) == \A i \in 1..Len(xml) : xml[i] # "\n"

NoRawBracket(xml) ==
  \A i \in 1..Len(StepElements(xml)) :
    \A j \in 1..Len(StepElements(xml)[i].action) :
      StepElements(xml)[i].action[j] \notin {"<", ">"}

DecodeOfEscapedBlobOnOneLine ==
  (/\ round_trip.called
   /\ OnOneLine(round_trip.steps_xml)
   /\ NoRawBracket(round_trip.steps_xml))
  => /\ round_trip.lines = PlainActionsOf(round_trip.steps_xml)
     /\ \A i \in 1..Len(round_trip.lines) : ~Contains(round_trip.lines[i], <<"e">>)

(* ====================== the patch document of a record ================= *)
\* config["constants"]["System.AreaPath"]
SystemAreaPath == "Area\\"

AutomationStatusPath == "/fields/Custom.AutomationStatus"
PriorityPath == "/fields/Microsoft.VSTS.Common.Priority"
TitlePath == "/fields/System.Title"
StepsPath == "/fields/Microsoft.VSTS.TCM.Steps"
TagsPath == "/fields/System.Tags"
IterationPathPath == "/fields/System.IterationPath"
RelationsPath == "/relations/-"

Replace(path, value) == [op |-> "replace", path |-> path, value |-> value]

\* build_iteration_path_tags (lines 321-338): the op of the last candidate
build_iteration_path_tags(iteration_path_tags) ==
  IF iteration_path_tags = <<>> THEN <<>>
  ELSE <<Replace(IterationPathPath,
                 Val(<<SystemAreaPath,
                       ReplaceUnderscore(iteration_path_tags[Len(iteration_path_tags)])>>))>>

\* build_linked_items (lines 353-371): the url ends with the linked id
build_linked_items(linked_work_items) ==
  [i \in 1..Len(linked_work_items) |->
     [op |-> "add", path |-> RelationsPath,
      value |-> Val(<<"_apis/wit/workitems/", linked_work_items[i]>>)]]

\* build_fields (lines 411-446): the five replace ops and the linked items,
\* less those whose value is None or ""
build_fields(data_tags, title, linked_items, transformed_steps) ==
  LET steps_xml == build_steps_xml(transformed_steps)
      fields == << Replace(AutomationStatusPath, data_tags[1]),
                   Replace(PriorityPath, data_tags[2]),
                   Replace(TitlePath, Val(title)),
                   Replace(StepsPath, Val(steps_xml)),
                   Replace(TagsPath, data_tags[3]) >> \o linked_items
  IN SelectSeq(fields, LAMBDA x : ~x.value.none /\ x.value.text # <<>>)

\* lines 555-558: the markers are the literals "UserStory" and "Bug"
LinkedItemIds(tags) ==
  TagValues(parse_tags(tags), "UserStory") \o TagValues(parse_tags(tags), "Bug")

\* lines 555-560 and update_azure_test_case up to the request of line 515:
\* line 485 does not keep what build_iteration_path_tags returns, so the op
\* is computed and is no part of the fields
UpdateOneRecord(case, system_tags) ==
  LET info == extract_tags_info(case.Tags)
  IN IF info.raised
       THEN [NotBuilt EXCEPT !.called = TRUE, !.raised = "AttributeError"]
       ELSE [called |-> TRUE, raised |-> "none", sent |-> TRUE,
             test_case_id |-> TestCaseIdOf(case.Tags),
             update_iteration_path |->
               build_iteration_path_tags(
                 TagValues(parse_tags(case.Tags), prefix_iteration_path)),
             fields |->
               build_fields(<<Val(<<info.automation_status>>),
                              IF info.priority = None THEN NoneVal
                                                      ELSE Val(<<info.priority>>),
                              system_tags>>,
                            case.Title,
                            build_linked_items(LinkedItemIds(case.Tags)),
                            case.Steps)]

\* the text of a tag line made of these words
TagLine(words) ==
  IF words = <<>> THEN <<>>
  ELSE <<Head(words)>> \o Flatten([i \in 1..(Len(words) - 1) |-> <<WS, words[i + 1]>>])

BuildTagLines ==
  { TagLine(<<"TestCase", "1", "AutomationStatus", "Planned", "Priority", "2">>),
    TagLine(<<"TC", "2", "AutomationStatus", "Not_Automated">>),
    TagLine(<<"TestCase", "3", "AutomationStatus", "Planned", "IterationPath", "Sprint_1">>),
    TagLine(<<"TestCase", "1", "AutomationStatus", "Planned", "UserStory", "7", "Bug", "3">>),
    TagLine(<<"TestCase", "1", "AutomationStatus", "Planned", "Bug", "3", "UserStory", "7">>),
    TagLine(<<"TC", "2", "AutomationStatus", "Planned", "US", "7">>),
    TagLine(<<"TestCase", "2", "Priority", "2">>),
    TagLine(<<"AutomationStatus", "Planned">>) }

BuildTitles == { <<>>, <<"A">>, <<"A", WS, "B">> }
BuildSteps == { <<>>, <<<<"s1">>>>, <<<<"s1">>, <<"s2", WS, "x">>>> }
BuildTestTags == { NoneVal, Val(<<"smoke">>) }

InitBuild ==
  /\ cfgFile = "ok"
  /\ missing = {}
  /\ PullIdle
  /\ raw_test_cases_data = <<>>
  /\ parsed = NotCalled
  /\ case_tag = <<>>
  /\ tags_info = TagsNotCalled
  /\ PushIdle
  /\ tag_config \in Vocabularies
  /\ IdsIdle
  /\ CodecIdle
  /\ push_case \in [keys : {{"Title", "Tags", "Steps"}}, Title : BuildTitles,
                    Tags : BuildTagLines, Steps : BuildSteps]
  /\ test_tags \in BuildTestTags
  /\ patch_doc = NotBuilt
  /\ RenderIdle
  /\ CliIdle

PushOneRecord ==
  /\ ~patch_doc.called
  /\ patch_doc' = UpdateOneRecord(push_case, test_tags)
  /\ UNCHANGED idleInBuild

SpecBuild == InitBuild /\ [][PushOneRecord]_vars

(* ------------------------ claims on the patch document ----------------- *)
HasOp(fields, path) == \E i \in 1..Len(fields) : fields[i].path = path

CategoryPresent(tags, prefix) == ~CategoryAbsent(tags, prefix)

\* C14: the document holds a replace op for the title, the steps, the tags,
\* the automation status and the priority exactly when the record has that
\* content; no op carries None or an empty value, and a record without steps
\* yields no steps op.
C14_ReplaceOpIffContent ==
  patch_doc.sent =>
    /\ HasOp(patch_doc.fields, TitlePath) <=> push_case.Title # <<>>
    /\ HasOp(patch_doc.fields, StepsPath) <=> push_case.Steps # <<>>
    /\ HasOp(patch_doc.fields, TagsPath) <=> (~test_tags.none /\ test_tags.text # <<>>)
    /\ HasOp(patch_doc.fields, AutomationStatusPath)
         <=> CategoryPresent(push_case.Tags, prefix_automation_status)
    /\ HasOp(patch_doc.fields, PriorityPath)
         <=> CategoryPresent(push_case.Tags, prefix_priority)
    /\ \A i \in 1..Len(patch_doc.fields) :
         ~patch_doc.fields[i].value.none /\ patch_doc.fields[i].value.text # <<>>

\* What holds of the code: the same with the steps op left out of the count;
\* the steps op is always there.
ReplaceOpIffContentButSteps ==
  patch_doc.sent =>
    /\ HasOp(patch_doc.fields, TitlePath) <=> push_case.Title # <<>>
    /\ HasOp(patch_doc.fields, StepsPath)
    /\ HasOp(patch_doc.fields, TagsPath) <=> (~test_tags.none /\ test_tags.text # <<>>)
    /\ HasOp(patch_doc.fields, AutomationStatusPath)
         <=> CategoryPresent(push_case.Tags, prefix_automation_status)
    /\ HasOp(patch_doc.fields, PriorityPath)
         <=> CategoryPresent(push_case.Tags, prefix_priority)
    /\ \A i \in 1..Len(patch_doc.fields) :
         ~patch_doc.fields[i].value.none /\ patch_doc.fields[i].value.text # <<>>

\* C15: a record whose title is empty is refused: no patch document is
\* built or sent for it.
C15_EmptyTitleIsRefused ==
  (patch_doc.called /\ push_case.Title = <<>>) => ~patch_doc.sent

\* the ids of the add ops of a document, in order
AddOpIds(fields) ==
  LET adds == SelectSeq(fields, LAMBDA x : x.op = "add")
  IN [i \in 1..Len(adds) |-> adds[i].value.text[2]]

\* the values the tag line gives under the two markers, in tag order
LinkedIdsInTagOrder(tags, user_story, bug) ==
  LET hits == SelectSeq(parse_tags(tags), LAMBDA pr : pr[1] \in {user_story, bug})
  IN [k \in 1..Len(hits) |-> hits[k][2]]

\* C16: the document holds one add op for every story or bug id the tag
\* line carries under the configured story and bug markers, in tag order,
\* and none when it carries no such tag.
C16_OneAddOpPerLinkedId ==
  patch_doc.sent =>
    AddOpIds(patch_doc.fields)
      = LinkedIdsInTagOrder(push_case.Tags, tag_config.user_story, tag_config.bug)

\* C17: when the tag line carries an iteration-path tag the document sent
\* holds a replace op on /fields/System.IterationPath whose value is the
\* area path followed by the tag value with its underscores made spaces.
C17_IterationPathOpSent ==
  LET values == TagValues(parse_tags(push_case.Tags), prefix_iteration_path)
  IN (patch_doc.sent /\ values # <<>>) =>
       \E i \in 1..Len(patch_doc.fields), v \in 1..Len(values) :
         patch_doc.fields[i]
           = Replace(IterationPathPath, Val(<<SystemAreaPath, ReplaceUnderscore(values[v])>>))

\* C18: the work item the push patches for a record is the one whose id
\* follows the configured test-case-id prefix in the tag line: the id
\* get_robot_test_case_ids extracts for that record.
C18_PushTargetIsConfiguredId ==
  patch_doc.sent =>
    (IF patch_doc.test_case_id = "" THEN {} ELSE {ToInt(patch_doc.test_case_id)})
      = RobotTestCaseIdOf(push_case.Tags, tag_config.test_case)

\* C28: a record whose tag line carries no test-case id causes no PATCH, and
\* every PATCH that is sent goes to a work item with a non-empty numeric id.
C28_PatchOnlyWithTestCaseId ==
  patch_doc.called =>
    /\ (RobotTestCaseIdOf(push_case.Tags, tag_config.test_case) = {} => ~patch_doc.sent)
    /\ (patch_doc.sent => IsNumber(patch_doc.test_case_id))

\* What holds of the code: the PATCH is sent for every record whose tag line
\* carries an automation status, to the id behind "TestCase" when there is
\* one and to the empty id when there is none.
PatchSentWhateverTheId ==
  patch_doc.called =>
    /\ patch_doc.sent <=> CategoryPresent(push_case.Tags, prefix_automation_status)
    /\ (patch_doc.sent => patch_doc.test_case_id = TestCaseIdOf(push_case.Tags))

(* ===================== the tag line of a pulled record ================= *)
MaxRelations == 2

\* str.replace(" ", "_") of line 272
JoinWithUnderscore(words) ==
  IF words = <<"Sprint", "1">> THEN <<"Sprint_1">> ELSE words

\* f"{prefix} {value}" after four blanks: a value is the words of its text
TagOf(prefix, value) == <<WS, prefix, WS>> \o TagLine(value)

\* get_tags (lines 245-252): the prefix itself is split and rendered as value
get_tags(fields) ==
  IF fields.system_tags THEN TagOf(prefix_system_tags, <<prefix_system_tags>>) ELSE <<>>

\* get_relations_tags (lines 254-264)
get_relations_tags(fields, prefix_user_story) ==
  Flatten([i \in 1..Len(fields.relations) |->
             TagOf(prefix_user_story, <<fields.relations[i]>>)])

\* get_tags_line (lines 219-231) on the details of lines 266-273
get_tags_line(fields, config) ==
  <<WS, "[tags]">>
  \o TagOf(config.test_case, fields.id)
  \o TagOf(prefix_automation_status, fields.automation_status)
  \o TagOf(prefix_priority, fields.priority)
  \o TagOf(prefix_iteration_path, JoinWithUnderscore(fields.sprint))
  \o get_tags(fields)
  \o get_relations_tags(fields, config.user_story)

\* line 220: what parse_test_cases keeps of a [tags] line
TagsTextOf(line) == Strip(Drop(Strip(line), Len(tags_marker)))

\* line 277: a blank, the title marker, a colon, a blank and the title
title_line(fields) == <<WS>> \o title_marker \o <<":", WS>> \o TagLine(fields.title)

\* lines 277-278 and 291: the lines of the block of a work item without steps
RenderedBlock(fields, config) ==
  << <<>>, title_line(fields), get_tags_line(fields, config), <<>> >>

\* the record the push reads of that block, the empty dict when it reads none
RecordOfBlock(fields, config) ==
  LET result == parse_test_cases(RenderedBlock(fields, config))
  IN IF result.raised \/ result.cases = <<>> THEN EmptyDict ELSE result.cases[1]

WorkItems ==
  [id : {<<"1">>},
   title : {<<>>, <<"Login">>, <<"Login", "works">>},
   automation_status : {<<>>, <<"Planned">>, <<"Not", "Automated">>},
   priority : {<<>>, <<"2">>},
   sprint : {<<>>, <<"Sprint", "1">>},
   system_tags : BOOLEAN,
   relations : SeqsUpTo({"7", "8"}, MaxRelations)]

InitRender ==
  /\ cfgFile = "ok"
  /\ missing = {}
  /\ PullIdle
  /\ raw_test_cases_data = <<>>
  /\ parsed = NotCalled
  /\ case_tag = <<>>
  /\ tags_info = TagsNotCalled
  /\ PushIdle
  /\ tag_config \in Vocabularies
  /\ IdsIdle
  /\ CodecIdle
  /\ BuildIdle
  /\ work_item \in WorkItems
  /\ tag_trip = NotRendered
  /\ CliIdle

\* the pull renders the block of the work item, the push parses it and builds
\* the patch document of the record
RenderThenParseTags ==
  /\ ~tag_trip.called
  /\ tag_trip' =
       [called |-> TRUE,
        tags_line |-> get_tags_line(work_item, tag_config),
        title_line |-> title_line(work_item),
        tags |-> parse_tags(TagsTextOf(get_tags_line(work_item, tag_config))),
        case |-> RecordOfBlock(work_item, tag_config),
        patch |-> UpdateOneRecord(RecordOfBlock(work_item, tag_config), NoneVal)]
  /\ UNCHANGED idleInRender

SpecRender == InitRender /\ [][RenderThenParseTags]_vars

\* the categories and values the tag line was rendered from, in order
RenderedTags(fields, config) ==
  << <<config.test_case, fields.id>>,
     <<prefix_automation_status, fields.automation_status>>,
     <<prefix_priority, fields.priority>>,
     <<prefix_iteration_path, JoinWithUnderscore(fields.sprint)>> >>
  \o (IF fields.system_tags THEN << <<prefix_system_tags, <<prefix_system_tags>>>> >>
      ELSE <<>>)
  \o [i \in 1..Len(fields.relations) |-> <<config.user_story, <<fields.relations[i]>>>>]

Categories(pairs) == {pairs[i][1] : i \in 1..Len(pairs)}

\* the values of a category as texts, each the words of the value
ValueTexts(pairs, category) ==
  LET hits == SelectSeq(pairs, LAMBDA pr : pr[1] = category)
  IN [k \in 1..Len(hits) |-> hits[k][2]]

WordsAsTexts(values) == [k \in 1..Len(values) |-> <<values[k]>>]

\* C19: parse_tags of the tag line rendered for a work item yields exactly
\* the rendered categories, each with exactly the values rendered for it, in
\* order.
C19_TagRoundTrip ==
  tag_trip.called =>
    /\ Categories(tag_trip.tags) = Categories(RenderedTags(work_item, tag_config))
    /\ \A c \in Categories(tag_trip.tags) :
         WordsAsTexts(TagValues(tag_trip.tags, c))
           = ValueTexts(RenderedTags(work_item, tag_config), c)

\* What holds of the code: the same for a work item whose four fields are
\* all set and hold one word each.
OneWordEach(fields) ==
  /\ Len(fields.id) = 1
  /\ Len(fields.automation_status) = 1
  /\ Len(fields.priority) = 1
  /\ Len(JoinWithUnderscore(fields.sprint)) = 1

TagRoundTripOfOneWordValues ==
  (tag_trip.called /\ OneWordEach(work_item)) =>
    /\ Categories(tag_trip.tags) = Categories(RenderedTags(work_item, tag_config))
    /\ \A c \in Categories(tag_trip.tags) :
         WordsAsTexts(TagValues(tag_trip.tags, c))
           = ValueTexts(RenderedTags(work_item, tag_config), c)

\* the value of the first op of a document on a path
OpText(fields, path) ==
  LET hits == SelectSeq(fields, LAMBDA x : x.path = path)
  IN IF hits = <<>> THEN <<>> ELSE hits[1].value.text

\* C26: the record parsed of the block rendered for a work item titled T has
\* the title T, and the patch document of that record carries T as title.
C26_TitleRoundTrip ==
  tag_trip.called =>
    /\ tag_trip.case.Title = TagLine(work_item.title)
    /\ (tag_trip.patch.sent =>
          OpText(tag_trip.patch.fields, TitlePath) = TagLine(work_item.title))

\* What holds of the code: the title comes back behind the colon the pull
\* writes after the marker, and that is the title the push sends.
TitleComesBackWithColon ==
  tag_trip.called =>
    /\ tag_trip.case.Title =
         <<":">> \o (IF work_item.title = <<>> THEN <<>>
                     ELSE <<WS>> \o TagLine(work_item.title))
    /\ (tag_trip.patch.sent =>
          OpText(tag_trip.patch.fields, TitlePath) = tag_trip.case.Title)

\* C27: the automation status the push extracts of the tag line rendered for
\* a work item whose automation status is S is S, and S is what the patch
\* document carries as automation status.
C27_AutomationStatusRoundTrip ==
  (tag_trip.called /\ work_item.automation_status # <<>>) =>
    /\ tag_trip.patch.sent
    /\ OpText(tag_trip.patch.fields, AutomationStatusPath)
         = TagLine(work_item.automation_status)

\* What holds of the code: the push extracts the first word of S.
FirstWordOfAutomationStatus ==
  (tag_trip.called /\ work_item.automation_status # <<>>) =>
    /\ tag_trip.patch.sent
    /\ OpText(tag_trip.patch.fields, AutomationStatusPath)
         = <<Head(work_item.automation_status)>>

(* ============================ the command line ========================= *)
MaxArgs == 2

\* the two one-word commands taken for each other
StagesForSwapped(args, folder) ==
  IF Len(args) = 0
    THEN <<"get", "patch">> \o (IF folder # "" THEN <<"robot">> ELSE <<>>)
  ELSE IF Len(args) = 1
    THEN (IF args[1] = "get" THEN <<"patch">>
          ELSE IF args[1] = "patch" THEN <<"get">>
          ELSE <<>>)
  ELSE <<>>

\* the stages of a run that no stage fails (lines 110-132): the runner is
\* started when the configuration names a tests folder
StagesFor(args, folder) ==
  IF Len(args) = 0
    THEN <<"get", "patch">> \o (IF folder # "" THEN <<"robot">> ELSE <<>>)
  ELSE IF Len(args) = 1
    THEN (IF args[1] = "get" THEN <<"get">>
          ELSE IF args[1] = "patch" THEN <<"patch">>
          ELSE <<>>)
  ELSE <<>>

\* the exit status of a stage not looked at
AfterExitUnchecked(ok) == "running"

\* check=True of lines 16, 22 and 30: a status other than 0 raises
\* CalledProcessError, which main does not catch
AfterExit(ok) == IF ok THEN "running" ELSE "failed"

InitCli ==
  /\ cfgFile \in {"ok", "absent", "invalid"}
  /\ missing = {}
  /\ PullIdle
  /\ raw_test_cases_data = <<>>
  /\ parsed = NotCalled
  /\ case_tag = <<>>
  /\ tags_info = TagsNotCalled
  /\ PushIdle
  /\ tag_config = DefaultTagConfig
  /\ IdsIdle
  /\ CodecIdle
  /\ BuildIdle
  /\ RenderIdle
  /\ argv \in SeqsUpTo({"get", "patch", "run"}, MaxArgs)
  /\ tests_folder \in {"", "tests"}
  /\ cli_pc = "start"
  /\ todo = <<>>
  /\ stages = <<>>
  /\ exits = <<>>

\* lines 104-108: create_sync_config writes the file when there is none, with
\* the folder typed in as its path; then the argument count is looked at
MainStart ==
  /\ cli_pc = "start"
  /\ cfgFile' = IF cfgFile = "absent" THEN "ok" ELSE cfgFile
  /\ todo' = StagesFor(argv, tests_folder)
  /\ cli_pc' = "running"
  /\ UNCHANGED <<idleInCli, stages, exits>>

\* run_sync_get, run_sync_patch, run_robot_tests: subprocess.run starts the
\* stage; it returns when the stage has exited
StartStage ==
  /\ cli_pc = "running"
  /\ todo # <<>>
  /\ Len(exits) = Len(stages)
  /\ stages' = Append(stages, Head(todo))
  /\ todo' = Tail(todo)
  /\ UNCHANGED <<idleInCli, cfgFile, cli_pc, exits>>

\* the stage exits; check=True raises CalledProcessError on a status other
\* than 0 and main ends there.  Both scripts need a configuration that loads.
StageExits ==
  /\ cli_pc = "running"
  /\ Len(exits) < Len(stages)
  /\ \E ok \in BOOLEAN :
       /\ (cfgFile # "ok" /\ stages[Len(stages)] \in {"get", "patch"} => ~ok)
       /\ exits' = Append(exits, ok)
       /\ cli_pc' = AfterExit(ok)
  /\ UNCHANGED <<idleInCli, cfgFile, todo, stages>>

\* main returns
MainReturns ==
  /\ cli_pc = "running"
  /\ todo = <<>>
  /\ Len(exits) = Len(stages)
  /\ cli_pc' = "done"
  /\ UNCHANGED <<idleInCli, cfgFile, todo, stages, exits>>

NextCli ==
  \/ MainStart
  \/ StartStage
  \/ StageExits
  \/ MainReturns

SpecCli == InitCli /\ [][NextCli]_vars

\* every stage but the one running has exited, and with status 0
OneStageAtATime ==
  /\ Len(stages) - Len(exits) \in {0, 1}
  /\ \A i \in 1..(Len(stages) - 1) : i <= Len(exits) /\ exits[i]

\* C20 as amended: the stages are started one at a time, each after the
\* one before it has exited, in the order the argument gives: no argument
\* gives pull, push and then the test runner when the configuration names a
\* tests folder, "get" gives pull, "patch" gives push, anything else gives
\* none; a run that returns has run all of them.
C20_StagesFollowArgument ==
  LET expected ==
        CASE argv = <<>> -> IF tests_folder # "" THEN <<"get", "patch", "robot">>
                                                 ELSE <<"get", "patch">>
          [] argv = <<"get">> -> <<"get">>
          [] argv = <<"patch">> -> <<"patch">>
          [] OTHER -> <<>>
  IN /\ OneStageAtATime
     /\ IsPrefix(stages, expected)
     /\ (cli_pc = "done" => stages = expected)

C20_Witness ==
  /\ cli_pc = "done"
  /\ argv = <<>>
  /\ stages = <<"get", "patch", "robot">>
  /\ exits = <<TRUE, TRUE, TRUE>>

\* C20 as stated: the stages are determined by the argument alone; no
\* argument gives pull, push and the test runner.
C20_StagesDeterminedByArgument ==
  LET expected ==
        CASE argv = <<>> -> <<"get", "patch", "robot">>
          [] argv = <<"get">> -> <<"get">>
          [] argv = <<"patch">> -> <<"patch">>
          [] OTHER -> <<>>
  IN /\ OneStageAtATime
     /\ IsPrefix(stages, expected)
     /\ (cli_pc = "done" => stages = expected)

\* C30: in a run without argument no stage is started after a stage that
\* exited with a failure: a failing pull leaves the push and the test runner
\* unstarted, a failing push leaves the test runner unstarted; and the test
\* runner is started only when the configuration names a tests folder.
C30_FailingStageStopsChain ==
  argv = <<>> =>
    /\ \A i \in 1..Len(exits) : ~exits[i] => Len(stages) = i
    /\ (exits # <<>> /\ ~exits[1] => stages = <<"get">>)
    /\ (Len(exits) >= 2 /\ ~exits[2] => stages = <<"get", "patch">>)
    /\ (\E i \in 1..Len(stages) : stages[i] = "robot") => tests_folder # ""

\* the push failed after a pull that succeeded, with a tests folder named:
\* main has ended and the test runner was not started
C30_Witness ==
  /\ argv = <<>>
  /\ tests_folder = "tests"
  /\ cli_pc = "failed"
  /\ stages = <<"get", "patch">>
  /\ exits = <<TRUE, FALSE>>

====
